---------------------------- MODULE Spec2Model ----------------------------
(***************************************************************************)
(* Model of src/app.py: the Dash application "Muertes por Accidentes de    *)
(* Trabajo en Colombia (2024)".                                            *)
(*                                                                         *)
(* The module-level script (lines 30-80) builds df_sum, gdf, Datos_tot and *)
(* geojson from the CSV and the shapefile; the three callbacks (lines      *)
(* 220-299) then serve requests.  Spec models the script statement by      *)
(* statement followed by the callbacks.  SpecCanon models what lines 41-68 *)
(* do to one cell of each DPTO_CNMBR column (alias replacement followed by *)
(* normalizar_texto), applied once and then a second time.                 *)
(*                                                                         *)
(* Text.  A Python str is a sequence of characters; a character is a       *)
(* one-element token.  The accented characters are written in ASCII:       *)
(*   "a'" "e'" "i'" "o'" "u'" "n~" "u:"   for  a-acute .. u-acute,         *)
(*                                        n-tilde, u-diaeresis             *)
(*   "A'" "E'" "I'" "O'" "U'" "N~" "U:"   for their capitals.              *)
(* Missing values.  A missing name (None/NaN) is NaN; a missing geometry   *)
(* is None; a float is <<n>> and the float NaN is NaNf (the outer merge    *)
(* turns the integer column MUERTES_REPOR_AT into floats).                 *)
(***************************************************************************)
EXTENDS Integers, Sequences, FiniteSets, TLC

VARIABLES
    \* ---- the module-level script and the callbacks (Spec) ----
    pc,             \* the next statement of the module-level script, or "serving"
    df,             \* the CSV as read (line 31): rows [DPTO_CNMBR, MUERTES_REPOR_AT]
    shapefile,      \* the shapefile's features as stored on disk
    gdf,            \* line 30, then modified in place by lines 47-53 and 68
    df_sum,         \* line 39, then modified in place by lines 42-45 and 67
    Datos_tot,      \* line 71
    geojson,        \* line 76
    opciones,       \* the options of dropdown-depto (line 178)
    acordeon_style, \* the style property of acordeon-content (line 156)
    n_clicks,       \* the n_clicks property of acordeon: None, then 1, 2, ...
    respuesta,      \* what the last figure callback returned or raised
    \* ---- one cell of each name column (SpecCanon) ----
    crudo,          \* the raw name in each source
    nombre,         \* the cell's current value in each source
    clave,          \* the cell's value after the first canonicalization
    aplicaciones    \* how many times each cell has been canonicalized

varsApp == <<pc, df, shapefile, gdf, df_sum, Datos_tot, geojson, opciones,
             acordeon_style, n_clicks, respuesta>>
varsCanon == <<crudo, nombre, clave, aplicaciones>>
vars == <<pc, df, shapefile, gdf, df_sum, Datos_tot, geojson, opciones,
          acordeon_style, n_clicks, respuesta,
          crudo, nombre, clave, aplicaciones>>

---------------------------------------------------------------------------
(* Bounds of the model *)

\* rows of the CSV
MaxFilasCsv == 2
\* features of the shapefile
MaxFilasShp == 2
\* clicks on the accordion
MaxClics == 2
\* length of the arbitrary raw names tried in SpecCanon
MaxLen == 2

\* the values MUERTES_REPOR_AT takes in the CSV rows tried
Muertes == {1, 2}

---------------------------------------------------------------------------
(* Characters and strings *)

\* every character the model uses, in code point order (Python compares and
\* sorts str by code point)
CodePointOrder ==
    <<" ", ".", "?",
      "A", "B", "C", "D", "E", "F", "G", "H", "I", "J", "K", "L", "M",
      "N", "O", "P", "Q", "R", "S", "T", "U", "V", "W", "X", "Y", "Z",
      "a", "b", "c", "d", "e", "f", "g", "h", "i", "j", "k", "l", "m",
      "n", "o", "p", "q", "r", "s", "t", "u", "v", "w", "x", "y", "z",
      "A'", "E'", "I'", "N~", "O'", "U'", "U:",
      "a'", "e'", "i'", "n~", "o'", "u'", "u:">>

ord(c) == CHOOSE i \in 1..Len(CodePointOrder) : CodePointOrder[i] = c

\* the cased characters: UpperChars[i].lower() is LowerChars[i]
UpperChars ==
    <<"A", "B", "C", "D", "E", "F", "G", "H", "I", "J", "K", "L", "M",
      "N", "O", "P", "Q", "R", "S", "T", "U", "V", "W", "X", "Y", "Z",
      "A'", "E'", "I'", "N~", "O'", "U'", "U:">>
LowerChars ==
    <<"a", "b", "c", "d", "e", "f", "g", "h", "i", "j", "k", "l", "m",
      "n", "o", "p", "q", "r", "s", "t", "u", "v", "w", "x", "y", "z",
      "a'", "e'", "i'", "n~", "o'", "u'", "u:">>

\* a missing name: None in the shapefile, NaN in the CSV
NaN == <<"NaN">>
\* a missing geometry
None == <<"None">>
\* the float NaN, and the float of an integer
NaNf == <<>>
Float(n) == <<n>>

\* pd.isna(s)
isna(s) == s = NaN

\* c.lower() for one character
lower_char(c) ==
    IF \E i \in 1..Len(UpperChars) : UpperChars[i] = c
    THEN LowerChars[CHOOSE i \in 1..Len(UpperChars) : UpperChars[i] = c]
    ELSE c

\* the exception a float or None raises when asked for .lower() or .x
AttributeError == <<"AttributeError">>

\* s.lower(); a missing value has no such method
lower(s) ==
    IF isna(s) THEN AttributeError ELSE [i \in 1..Len(s) |-> lower_char(s[i])]

\* s.replace(old, new) for one-character old and new
str_replace(s, old, new) ==
    [i \in 1..Len(s) |-> IF s[i] = old THEN new ELSE s[i]]

\* a < b for two str
str_lt(a, b) ==
    \E i \in 1..(Len(a) + 1) :
        /\ \A j \in 1..(i - 1) : j <= Len(b) /\ a[j] = b[j]
        /\ \/ i = Len(a) + 1 /\ i <= Len(b)
           \/ i <= Len(a) /\ i <= Len(b) /\ ord(a[i]) < ord(b[i])

---------------------------------------------------------------------------
(* The department names the model uses *)

\* "N. DE SANTANDER"
N_DE_SANTANDER ==
    <<"N", ".", " ", "D", "E", " ", "S", "A", "N", "T", "A", "N", "D", "E", "R">>
\* "NORTE SANTANDER"
NORTE_SANTANDER ==
    <<"N", "O", "R", "T", "E", " ", "S", "A", "N", "T", "A", "N", "D", "E", "R">>
\* "NORTE DE SANTANDER"
NORTE_DE_SANTANDER ==
    <<"N", "O", "R", "T", "E", " ", "D", "E", " ",
      "S", "A", "N", "T", "A", "N", "D", "E", "R">>
\* "VALLE DEL CAUCA"
VALLE_DEL_CAUCA ==
    <<"V", "A", "L", "L", "E", " ", "D", "E", "L", " ", "C", "A", "U", "C", "A">>
\* "VALLE"
VALLE ==
    <<"V", "A", "L", "L", "E">>
\* "NARI?O"
NARI_O ==
    <<"N", "A", "R", "I", "?", "O">>
\* "NARINO" with N-tilde
NARINO ==
    <<"N", "A", "R", "I", "N~", "O">>
\* "BOGOTA D.C."
BOGOTA_DC ==
    <<"B", "O", "G", "O", "T", "A", " ", "D", ".", "C", ".">>
\* "BOGOTA"
BOGOTA ==
    <<"B", "O", "G", "O", "T", "A">>
\* "ARCHIPIELAGO DE SAN ANDRES"
ARCHIPIELAGO_DE_SAN_ANDRES ==
    <<"A", "R", "C", "H", "I", "P", "I", "E", "L", "A", "G", "O", " ",
      "D", "E", " ", "S", "A", "N", " ", "A", "N", "D", "R", "E", "S">>
\* "SAN ANDRES"
SAN_ANDRES ==
    <<"S", "A", "N", " ", "A", "N", "D", "R", "E", "S">>
\* "BOGOTA" with A-acute
BOGOTA_TILDE ==
    <<"B", "O", "G", "O", "T", "A'">>
\* "Bogota"
Bogota_titulo ==
    <<"B", "o", "g", "o", "t", "a">>
\* "bogota", the dropdown's initial value (line 179)
bogota ==
    <<"b", "o", "g", "o", "t", "a">>

---------------------------------------------------------------------------
(* Lines 41-68: alias replacement and normalizar_texto *)

\* the dict of df_sum["DPTO_CNMBR"].replace (lines 42-45), as <<key, value>>
alias_df_sum ==
    { <<N_DE_SANTANDER, NORTE_SANTANDER>>,
      <<VALLE_DEL_CAUCA, VALLE>> }

\* the dict of gdf["DPTO_CNMBR"].replace (lines 47-53)
alias_gdf ==
    { <<NARI_O, NARINO>>,
      <<NORTE_DE_SANTANDER, NORTE_SANTANDER>>,
      <<BOGOTA_DC, BOGOTA>>,
      <<ARCHIPIELAGO_DE_SAN_ANDRES, SAN_ANDRES>>,
      <<VALLE_DEL_CAUCA, VALLE>> }

\* Series.replace(dict) on one cell: a cell equal to a key becomes its value
replace(tabla, v) ==
    IF \E p \in tabla : p[1] = v
    THEN (CHOOSE p \in tabla : p[1] = v)[2]
    ELSE v

mal_car == <<"a'", "e'", "i'", "o'", "u'", "n~", "u:">>

\* bien_car with its last entry mistyped as u-acute
bien_car_typo == <<"a", "e", "i", "o", "u", "n", "u'">>

bien_car == <<"a", "e", "i", "o", "u", "n", "u">>

\* the loop of lines 63-64, from index i on
RECURSIVE quitar_tildes(_, _)
quitar_tildes(s, i) ==
    IF i > Len(mal_car)
    THEN s
    ELSE quitar_tildes(str_replace(s, mal_car[i], bien_car[i]), i + 1)

\* normalizar_texto with the substitution done before the case fold
normalizar_texto_sin_lower_previo(s) ==
    IF isna(s) THEN s ELSE lower(quitar_tildes(s, 1))

normalizar_texto(s) ==
    IF isna(s) THEN s ELSE quitar_tildes(lower(s), 1)

\* the stat-source dict with the target spelled as the shapefile spells it
canonicalize_df_sum_otro_alias(s) ==
    normalizar_texto(
        replace({ <<N_DE_SANTANDER, NORTE_DE_SANTANDER>>,
                  <<VALLE_DEL_CAUCA, VALLE>> }, s))

\* what lines 42-45 and 67 do to one cell of df_sum["DPTO_CNMBR"]
canonicalize_df_sum(s) == normalizar_texto(replace(alias_df_sum, s))

\* what lines 47-53 and 68 do to one cell of gdf["DPTO_CNMBR"]
canonicalize_gdf(s) == normalizar_texto(replace(alias_gdf, s))

canonicalize(fuente, s) ==
    IF fuente = "df_sum" THEN canonicalize_df_sum(s) ELSE canonicalize_gdf(s)


---------------------------------------------------------------------------
(* Lines 36-39: sum_por_departamento *)

\* the sum of MUERTES_REPOR_AT over the first n rows of d named k
RECURSIVE suma(_, _, _)
suma(d, k, n) ==
    IF n = 0
    THEN 0
    ELSE suma(d, k, n - 1)
         + (IF d[n].DPTO_CNMBR = k THEN d[n].MUERTES_REPOR_AT ELSE 0)

\* the names of K in ascending order (groupby sorts the group keys)
RECURSIVE ordenar(_)
ordenar(K) ==
    IF K = {}
    THEN <<>>
    ELSE LET m == CHOOSE x \in K : \A y \in K \ {x} : str_lt(x, y)
         IN  <<m>> \o ordenar(K \ {m})

\* one row per group of d, in the order of the keys
grupos(d, keys) ==
    [i \in 1..Len(keys) |->
        [DPTO_CNMBR |-> keys[i],
         MUERTES_REPOR_AT |-> suma(d, keys[i], Len(d))]]

\* groupby(..., dropna=False): the rows without a name form a last group
sum_por_departamento_dropna_false(d) ==
    LET K == {d[i].DPTO_CNMBR : i \in DOMAIN d}
    IN  grupos(d, ordenar(K \ {NaN}) \o (IF NaN \in K THEN <<NaN>> ELSE <<>>))

\* df.groupby("DPTO_CNMBR")[column_name].sum().reset_index(): groupby drops
\* the rows whose key is missing
sum_por_departamento(d) ==
    grupos(d, ordenar({d[i].DPTO_CNMBR : i \in DOMAIN d} \ {NaN}))

---------------------------------------------------------------------------
(* Line 71: pd.merge(gdf, df_sum, on="DPTO_CNMBR", how="outer") *)

\* the rows of the right table whose key is k
coincidencias(right, k) ==
    SelectSeq(right, LAMBDA r : r.DPTO_CNMBR = k)

\* the output rows of the left rows i..Len(left): each left row once per
\* matching right row, or once with a NaN count when nothing matches
RECURSIVE filas_izquierda(_, _, _)
filas_izquierda(left, right, i) ==
    IF i > Len(left)
    THEN <<>>
    ELSE LET m == coincidencias(right, left[i].DPTO_CNMBR)
             filas ==
                 IF m = <<>>
                 THEN << [DPTO_CNMBR |-> left[i].DPTO_CNMBR,
                          geometry |-> left[i].geometry,
                          MUERTES_REPOR_AT |-> NaNf] >>
                 ELSE [j \in 1..Len(m) |->
                          [DPTO_CNMBR |-> left[i].DPTO_CNMBR,
                           geometry |-> left[i].geometry,
                           MUERTES_REPOR_AT |-> Float(m[j].MUERTES_REPOR_AT)]]
         IN  filas \o filas_izquierda(left, right, i + 1)

\* the output rows of the right rows no left row matches: no geometry
filas_solo_derecha(left, right) ==
    LET solo == SelectSeq(right,
                    LAMBDA r : \A i \in DOMAIN left :
                                   left[i].DPTO_CNMBR # r.DPTO_CNMBR)
    IN  [j \in 1..Len(solo) |->
            [DPTO_CNMBR |-> solo[j].DPTO_CNMBR,
             geometry |-> None,
             MUERTES_REPOR_AT |-> Float(solo[j].MUERTES_REPOR_AT)]]

\* The outer merge.  The rows are listed left rows first; pandas orders them
\* by key in some versions, and nothing below reads the order across keys.
merge_outer(left, right) ==
    filas_izquierda(left, right, 1) \o filas_solo_derecha(left, right)

---------------------------------------------------------------------------
(* Lines 74-76: the simplified GeoJSON *)

\* geometry.simplify(0.01, preserve_topology=True)
simplify(g) == IF g = None THEN None ELSE g \o <<"simplify(0.01)">>

\* json.loads(gdf_simplificado.to_json())
to_geojson(g) ==
    [i \in 1..Len(g) |->
        [properties |-> [DPTO_CNMBR |-> g[i].DPTO_CNMBR],
         geometry |-> simplify(g[i].geometry)]]

\* Series.unique(): the distinct values in order of first appearance
unique(col) ==
    SelectSeq([i \in 1..Len(col) |-> <<i, col[i]>>],
              LAMBDA p : \A j \in 1..(p[1] - 1) : col[j] # p[2])

\* the values of the dropdown's options (line 178)
dropdown_values(t) ==
    LET u == unique([i \in 1..Len(t) |-> t[i].DPTO_CNMBR])
    IN  [i \in 1..Len(u) |-> u[i][2]]


---------------------------------------------------------------------------
(* Lines 220-299: what the callbacks compute *)

\* the style dict of acordeon-content with the given display (lines 156, 230, 232)
estilo(display) ==
    [display |-> display, padding |-> "15px",
     border |-> "1px solid #ddd", borderTop |-> "none"]

\* n_clicks before the first click
SinClics == <<>>

\* toggle_acordeon that shows the content whatever the current style is
toggle_acordeon_siempre_block(clicks, current_style) ==
    IF clicks = SinClics THEN current_style ELSE estilo("block")

toggle_acordeon(clicks, current_style) ==
    IF clicks = SinClics
    THEN current_style
    ELSE IF current_style.display = "none"
         THEN estilo("block")
         ELSE estilo("none")

\* GeoSeries.centroid for one geometry: a missing geometry has none
centroid(g) == IF g = None THEN None ELSE <<"Point">> \o g

\* the body of actualizar_mapa: the figure returned, or the exception raised
\* by centroide.x when the first selected row has no geometry
fig_mapa(depto_seleccionado) ==
    LET seleccionado ==
            SelectSeq(Datos_tot, LAMBDA r : r.DPTO_CNMBR = depto_seleccionado)
    IN  IF seleccionado = <<>>
        THEN [callback |-> "actualizar_mapa", depto |-> depto_seleccionado,
              resultado |-> "figure", marcador |-> None, text |-> <<>>]
        ELSE LET centroide == centroid(seleccionado[1].geometry)
             IN  IF centroide = None
                 THEN [callback |-> "actualizar_mapa",
                       depto |-> depto_seleccionado,
                       resultado |-> "AttributeError",
                       marcador |-> None, text |-> <<>>]
                 ELSE [callback |-> "actualizar_mapa",
                       depto |-> depto_seleccionado,
                       resultado |-> "figure",
                       marcador |-> centroide, text |-> <<>>]

\* the body of actualizar_barras: the bar figure with the selected rows'
\* values as text, or the empty figure titled "Sin datos disponibles"
fig_barras(depto_seleccionado) ==
    LET filtro ==
            SelectSeq(df_sum, LAMBDA r : r.DPTO_CNMBR = depto_seleccionado)
    IN  [callback |-> "actualizar_barras", depto |-> depto_seleccionado,
         resultado |-> IF filtro = <<>> THEN "Sin datos disponibles"
                       ELSE "figure",
         marcador |-> None,
         text |-> [i \in 1..Len(filtro) |-> filtro[i].MUERTES_REPOR_AT]]

\* no figure callback has run yet
SinRespuesta ==
    [callback |-> "", depto |-> NaN, resultado |-> "",
     marcador |-> None, text |-> <<>>]

\* the values the dropdown can send: its options and its initial value
ValoresDropdown ==
    {opciones[i] : i \in DOMAIN opciones} \cup {bogota}

---------------------------------------------------------------------------
(* The inputs tried *)

\* the sequences over S of length at most n
RECURSIVE SeqHasta(_, _)
SeqHasta(S, n) ==
    IF n = 0
    THEN {<<>>}
    ELSE LET menores == SeqHasta(S, n - 1)
         IN  menores \cup
             {Append(q, x) : q \in {m \in menores : Len(m) = n - 1}, x \in S}

\* the names of the CSV rows tried: two spellings of one department, one
\* accented name, and a missing name
NombresCsv == {N_DE_SANTANDER, NORTE_SANTANDER, BOGOTA_TILDE, NaN}

\* the names of the shapefile features tried
NombresShp == {NORTE_DE_SANTANDER, BOGOTA_DC, NaN}

FilasCsv ==
    [DPTO_CNMBR : NombresCsv, MUERTES_REPOR_AT : Muertes]

\* feature i of a shapefile has its own polygon
ConGeometria(nombres) ==
    [i \in 1..Len(nombres) |->
        [DPTO_CNMBR |-> nombres[i], geometry |-> <<"Polygon", i>>]]

---------------------------------------------------------------------------
(* The module-level script, one action per statement *)

\* lines 30-31 have read the two files; nothing is derived yet
Init ==
    /\ pc = "sum"
    /\ df \in SeqHasta(FilasCsv, MaxFilasCsv)
    /\ shapefile \in {ConGeometria(n) : n \in SeqHasta(NombresShp, MaxFilasShp)}
    /\ gdf = shapefile
    /\ df_sum = <<>>
    /\ Datos_tot = <<>>
    /\ geojson = <<>>
    /\ opciones = <<>>
    /\ acordeon_style = estilo("none")
    /\ n_clicks = SinClics
    /\ respuesta = SinRespuesta
    /\ crudo = <<>>
    /\ nombre = <<>>
    /\ clave = <<>>
    /\ aplicaciones = <<>>

\* line 39
Sumar ==
    /\ pc = "sum"
    /\ df_sum' = sum_por_departamento(df)
    /\ pc' = "replace_df_sum"
    /\ UNCHANGED <<df, shapefile, gdf, Datos_tot, geojson, opciones,
                   acordeon_style, n_clicks, respuesta>>
    /\ UNCHANGED varsCanon

\* t["DPTO_CNMBR"].replace(tabla, inplace=True)
replace_columna(t, tabla) ==
    [i \in 1..Len(t) |-> [t[i] EXCEPT !.DPTO_CNMBR = replace(tabla, @)]]

\* t["DPTO_CNMBR"] = t["DPTO_CNMBR"].apply(normalizar_texto)
apply_normalizar_texto(t) ==
    [i \in 1..Len(t) |-> [t[i] EXCEPT !.DPTO_CNMBR = normalizar_texto(@)]]

\* lines 42-45
ReemplazarDfSum ==
    /\ pc = "replace_df_sum"
    /\ df_sum' = replace_columna(df_sum, alias_df_sum)
    /\ pc' = "replace_gdf"
    /\ UNCHANGED <<df, shapefile, gdf, Datos_tot, geojson, opciones,
                   acordeon_style, n_clicks, respuesta>>
    /\ UNCHANGED varsCanon

\* lines 47-53
ReemplazarGdf ==
    /\ pc = "replace_gdf"
    /\ gdf' = replace_columna(gdf, alias_gdf)
    /\ pc' = "apply_df_sum"
    /\ UNCHANGED <<df, shapefile, df_sum, Datos_tot, geojson, opciones,
                   acordeon_style, n_clicks, respuesta>>
    /\ UNCHANGED varsCanon

\* some cell of t makes normalizar_texto raise
levanta(t) ==
    \E i \in DOMAIN t : normalizar_texto(t[i].DPTO_CNMBR) = AttributeError

\* line 67; an exception ends the script
NormalizarDfSum ==
    /\ pc = "apply_df_sum"
    /\ IF levanta(df_sum)
       THEN pc' = "error" /\ UNCHANGED df_sum
       ELSE /\ df_sum' = apply_normalizar_texto(df_sum)
            /\ pc' = "apply_gdf"
    /\ UNCHANGED <<df, shapefile, gdf, Datos_tot, geojson, opciones,
                   acordeon_style, n_clicks, respuesta>>
    /\ UNCHANGED varsCanon

\* line 68; an exception ends the script
NormalizarGdf ==
    /\ pc = "apply_gdf"
    /\ IF levanta(gdf)
       THEN pc' = "error" /\ UNCHANGED gdf
       ELSE /\ gdf' = apply_normalizar_texto(gdf)
            /\ pc' = "merge"
    /\ UNCHANGED <<df, shapefile, df_sum, Datos_tot, geojson, opciones,
                   acordeon_style, n_clicks, respuesta>>
    /\ UNCHANGED varsCanon

\* line 71
Merge ==
    /\ pc = "merge"
    /\ Datos_tot' = merge_outer(gdf, df_sum)
    /\ pc' = "geojson"
    /\ UNCHANGED <<df, shapefile, gdf, df_sum, geojson, opciones,
                   acordeon_style, n_clicks, respuesta>>
    /\ UNCHANGED varsCanon

\* lines 74-76
Geojson ==
    /\ pc = "geojson"
    /\ geojson' = to_geojson(gdf)
    /\ pc' = "layout"
    /\ UNCHANGED <<df, shapefile, gdf, df_sum, Datos_tot, opciones,
                   acordeon_style, n_clicks, respuesta>>
    /\ UNCHANGED varsCanon

\* lines 91-215: the layout fixes the dropdown's options and the accordion's
\* initial style; the server then starts
Layout ==
    /\ pc = "layout"
    /\ opciones' = dropdown_values(df_sum)
    /\ acordeon_style' = estilo("none")
    /\ n_clicks' = SinClics
    /\ pc' = "serving"
    /\ UNCHANGED <<df, shapefile, gdf, df_sum, Datos_tot, geojson, respuesta>>
    /\ UNCHANGED varsCanon

---------------------------------------------------------------------------
(* The callbacks *)

\* Dash calls toggle_acordeon when the page loads, n_clicks being None
toggle_acordeon_inicial ==
    /\ pc = "serving"
    /\ n_clicks = SinClics
    /\ acordeon_style' = toggle_acordeon(n_clicks, acordeon_style)
    /\ UNCHANGED <<pc, df, shapefile, gdf, df_sum, Datos_tot, geojson,
                   opciones, n_clicks, respuesta>>
    /\ UNCHANGED varsCanon

\* a click on the accordion: the browser counts it and Dash calls
\* toggle_acordeon with the new count and the current style
toggle_acordeon_clic ==
    /\ pc = "serving"
    /\ LET k == IF n_clicks = SinClics THEN 1 ELSE n_clicks[1] + 1
       IN  /\ k <= MaxClics
           /\ n_clicks' = <<k>>
           /\ acordeon_style' = toggle_acordeon(<<k>>, acordeon_style)
    /\ UNCHANGED <<pc, df, shapefile, gdf, df_sum, Datos_tot, geojson,
                   opciones, respuesta>>
    /\ UNCHANGED varsCanon

actualizar_mapa ==
    /\ pc = "serving"
    /\ \E depto_seleccionado \in ValoresDropdown :
           respuesta' = fig_mapa(depto_seleccionado)
    /\ UNCHANGED <<pc, df, shapefile, gdf, df_sum, Datos_tot, geojson,
                   opciones, acordeon_style, n_clicks>>
    /\ UNCHANGED varsCanon

\* actualizar_barras that keeps its filtered rows in the module-level df_sum
actualizar_barras_filtra_global ==
    /\ pc = "serving"
    /\ \E depto_seleccionado \in ValoresDropdown :
           /\ respuesta' = fig_barras(depto_seleccionado)
           /\ df_sum' = SelectSeq(df_sum,
                            LAMBDA r : r.DPTO_CNMBR = depto_seleccionado)
    /\ UNCHANGED <<pc, df, shapefile, gdf, Datos_tot, geojson,
                   opciones, acordeon_style, n_clicks>>
    /\ UNCHANGED varsCanon

actualizar_barras ==
    /\ pc = "serving"
    /\ \E depto_seleccionado \in ValoresDropdown :
           respuesta' = fig_barras(depto_seleccionado)
    /\ UNCHANGED <<pc, df, shapefile, gdf, df_sum, Datos_tot, geojson,
                   opciones, acordeon_style, n_clicks>>
    /\ UNCHANGED varsCanon

Next ==
    \/ Sumar
    \/ ReemplazarDfSum
    \/ ReemplazarGdf
    \/ NormalizarDfSum
    \/ NormalizarGdf
    \/ Merge
    \/ Geojson
    \/ Layout
    \/ toggle_acordeon_inicial
    \/ toggle_acordeon_clic
    \/ actualizar_mapa
    \/ actualizar_barras

Spec == Init /\ [][Next]_vars


---------------------------------------------------------------------------
(* SpecCanon: one cell of df_sum["DPTO_CNMBR"] and one cell of              *)
(* gdf["DPTO_CNMBR"] through lines 41-68, and through them a second time    *)

Fuentes == {"df_sum", "gdf"}

\* the characters of the arbitrary raw names: a plain letter and accented
\* letters of the substitution table, each in both cases
Alfabeto == {"a", "A", "a'", "A'", "n~", "N~", "u:", "U:"}

\* The known spellings of one department in the two sources, as
\* <<CSV spelling, shapefile spelling>>: the CSV spelling each dict entry of
\* lines 42-53 corrects or is corrected towards.
ParesAlias ==
    { <<N_DE_SANTANDER, NORTE_DE_SANTANDER>>,
      <<VALLE_DEL_CAUCA, VALLE_DEL_CAUCA>>,
      <<NARINO, NARI_O>>,
      <<BOGOTA, BOGOTA_DC>>,
      <<BOGOTA_TILDE, BOGOTA_DC>>,
      <<SAN_ANDRES, ARCHIPIELAGO_DE_SAN_ANDRES>> }

\* the raw names tried in both sources at once
NombresCrudos ==
    SeqHasta(Alfabeto, MaxLen)
        \cup {NaN, BOGOTA_TILDE, Bogota_titulo, BOGOTA, NARI_O, NARINO}

InitCanon ==
    /\ \E p \in ParesAlias \cup {<<x, x>> : x \in NombresCrudos} :
           crudo = [df_sum |-> p[1], gdf |-> p[2]]
    /\ nombre = crudo
    /\ clave = crudo
    /\ aplicaciones = [f \in Fuentes |-> 0]
    /\ pc = "canon"
    /\ df = <<>>
    /\ shapefile = <<>>
    /\ gdf = <<>>
    /\ df_sum = <<>>
    /\ Datos_tot = <<>>
    /\ geojson = <<>>
    /\ opciones = <<>>
    /\ acordeon_style = estilo("none")
    /\ n_clicks = SinClics
    /\ respuesta = SinRespuesta

\* the replace and the apply of source f act on its cell; the first result is
\* kept in clave
Canonicalizar(f) ==
    /\ aplicaciones[f] < 2
    /\ nombre' = [nombre EXCEPT ![f] = canonicalize(f, @)]
    /\ clave' = IF aplicaciones[f] = 0
                THEN [clave EXCEPT ![f] = canonicalize(f, nombre[f])]
                ELSE clave
    /\ aplicaciones' = [aplicaciones EXCEPT ![f] = @ + 1]
    /\ UNCHANGED crudo
    /\ UNCHANGED varsApp

\* lines 42-45 and 67 on the df_sum cell
CanonicalizarDfSum == Canonicalizar("df_sum")

\* lines 47-53 and 68 on the gdf cell
CanonicalizarGdf == Canonicalizar("gdf")

NextCanon ==
    \/ CanonicalizarDfSum
    \/ CanonicalizarGdf

SpecCanon == InitCanon /\ [][NextCanon]_vars


---------------------------------------------------------------------------
(* Vocabulary of the properties *)

\* the statements of the module-level script in program order
Orden ==
    <<"sum", "replace_df_sum", "replace_gdf", "apply_df_sum", "apply_gdf",
      "merge", "geojson", "layout", "serving">>

\* the statement at p has been executed
Hecho(p) ==
    \E i, j \in DOMAIN Orden : Orden[i] = p /\ Orden[j] = pc /\ i < j

\* the keys of a table
Claves(t) == {t[i].DPTO_CNMBR : i \in DOMAIN t}

\* the keys of t are pairwise distinct
ClavesUnicas(t) ==
    \A i, j \in DOMAIN t : t[i].DPTO_CNMBR = t[j].DPTO_CNMBR => i = j

\* the sum of MUERTES_REPOR_AT over the first n CSV rows whose raw name
\* canonicalizes to k
RECURSIVE SumaCsvDeClave(_, _)
SumaCsvDeClave(k, n) ==
    IF n = 0
    THEN 0
    ELSE SumaCsvDeClave(k, n - 1)
         + (IF canonicalize_df_sum(df[n].DPTO_CNMBR) = k
            THEN df[n].MUERTES_REPOR_AT ELSE 0)

\* the sum of MUERTES_REPOR_AT over the first n CSV rows that have a name
RECURSIVE SumaCsvConNombre(_)
SumaCsvConNombre(n) ==
    IF n = 0
    THEN 0
    ELSE SumaCsvConNombre(n - 1)
         + (IF isna(df[n].DPTO_CNMBR) THEN 0 ELSE df[n].MUERTES_REPOR_AT)

\* the sum of MUERTES_REPOR_AT over the first n rows of df_sum
RECURSIVE TotalDfSum(_)
TotalDfSum(n) ==
    IF n = 0 THEN 0 ELSE TotalDfSum(n - 1) + df_sum[n].MUERTES_REPOR_AT

\* the rows of Datos_tot with key k
FilasDe(k) == {i \in DOMAIN Datos_tot : Datos_tot[i].DPTO_CNMBR = k}

\* s has no capital letter
EsMinuscula(s) ==
    \A i \in DOMAIN s : \A j \in DOMAIN UpperChars : s[i] # UpperChars[j]

\* s has none of the seven accented characters of mal_car
SinTildes(s) ==
    \A i \in DOMAIN s : \A j \in DOMAIN mal_car : s[i] # mal_car[j]

\* the number of clicks so far
Clics == IF n_clicks = SinClics THEN 0 ELSE n_clicks[1]

---------------------------------------------------------------------------
(* The claims *)

\* C1 (as claimed, for shapefiles whose names are present and pairwise
\* distinct): after the outer merge, Datos_tot has as many rows as there are
\* keys in gdf or df_sum, and no key of df_sum is in more than one row.
C1_UnaFilaPorClave ==
    (Hecho("merge") /\ ClavesUnicas(gdf) /\ NaN \notin Claves(gdf))
        => /\ Len(Datos_tot) = Cardinality(Claves(gdf) \cup Claves(df_sum))
           /\ \A k \in Claves(df_sum) : Cardinality(FilasDe(k)) <= 1

\* C2 (as claimed): after the merge, every row of Datos_tot that comes from a
\* named shapefile feature without statistics has MUERTES_REPOR_AT 0.0.
C2_SinEstadisticaEsCero ==
    Hecho("merge")
        => \A i \in DOMAIN gdf :
               (~isna(gdf[i].DPTO_CNMBR)
                    /\ gdf[i].DPTO_CNMBR \notin Claves(df_sum))
                   => \A j \in FilasDe(gdf[i].DPTO_CNMBR) :
                          Datos_tot[j].MUERTES_REPOR_AT = Float(0)

\* C3 (as claimed): once df_sum is aggregated, alias-corrected and normalized,
\* its keys are pairwise distinct and each row's MUERTES_REPOR_AT is the sum
\* over all CSV rows whose raw name canonicalizes to the row's key.
C3_SumaPorClaveCanonica ==
    Hecho("apply_df_sum")
        => /\ ClavesUnicas(df_sum)
           /\ \A i \in DOMAIN df_sum :
                  df_sum[i].MUERTES_REPOR_AT =
                      SumaCsvDeClave(df_sum[i].DPTO_CNMBR, Len(df))

\* C4: canonicalizing a cell a second time leaves it as the first
\* canonicalization left it, in both sources.
C4_Idempotente ==
    \A f \in Fuentes : aplicaciones[f] = 2 => nombre[f] = clave[f]

\* a raw name the first canonicalization changed has been canonicalized twice
C4_Testigo ==
    \E f \in Fuentes :
        /\ aplicaciones[f] = 2
        /\ clave[f] # crudo[f]
        /\ nombre[f] = clave[f]

\* C5: for every known pair of spellings of one department, the CSV spelling
\* canonicalized by the df_sum steps and the shapefile spelling canonicalized
\* by the gdf steps are the same key, which is what the merge compares.
C5_ParesAliasCoinciden ==
    (/\ <<crudo["df_sum"], crudo["gdf"]>> \in ParesAlias
     /\ \A f \in Fuentes : aplicaciones[f] >= 1)
        => clave["df_sum"] = clave["gdf"]

\* "N. DE SANTANDER" and "NORTE DE SANTANDER" have both become
\* "norte santander"
C5_Testigo ==
    /\ crudo = [df_sum |-> N_DE_SANTANDER, gdf |-> NORTE_DE_SANTANDER]
    /\ \A f \in Fuentes : aplicaciones[f] >= 1
    /\ clave["df_sum"] = lower(NORTE_SANTANDER)
    /\ clave["gdf"] = lower(NORTE_SANTANDER)

\* C6: a canonicalized name has no capital letter and none of the seven
\* accented characters, whatever the case of the accented characters of the
\* raw name; "BOGOTA" with A-acute and "Bogota" both become "bogota".
C6_MinusculaSinTildes ==
    \A f \in Fuentes :
        (aplicaciones[f] >= 1 /\ ~isna(crudo[f]))
            => /\ EsMinuscula(nombre[f])
               /\ SinTildes(nombre[f])
               /\ crudo[f] \in {BOGOTA_TILDE, Bogota_titulo}
                      => nombre[f] = bogota

\* "BOGOTA" with a capital A-acute has become "bogota"
C6_Testigo ==
    /\ aplicaciones["df_sum"] >= 1
    /\ crudo["df_sum"] = BOGOTA_TILDE
    /\ nombre["df_sum"] = bogota

\* C7: missing names raise nothing; the CSV rows without a name are in no row
\* of df_sum (no missing key, and the counts of df_sum add up to the counts of
\* the named CSV rows), and a shapefile feature without a name still has none
\* after normalizar_texto.
C7_NombresNulos ==
    /\ pc # "error"
    /\ Hecho("sum")
           => /\ \A i \in DOMAIN df_sum : ~isna(df_sum[i].DPTO_CNMBR)
              /\ TotalDfSum(Len(df_sum))
                     = SumaCsvConNombre(Len(df))
    /\ Hecho("apply_gdf")
           => \A i \in DOMAIN shapefile :
                  isna(shapefile[i].DPTO_CNMBR) => isna(gdf[i].DPTO_CNMBR)

\* the script has normalized both columns of inputs that hold a CSV row
\* without a name, a named CSV row and a shapefile feature without a name
C7_Testigo ==
    /\ Hecho("apply_gdf")
    /\ \E i \in DOMAIN df : isna(df[i].DPTO_CNMBR)
    /\ \E i \in DOMAIN df : ~isna(df[i].DPTO_CNMBR)
    /\ \E i \in DOMAIN gdf : isna(gdf[i].DPTO_CNMBR)
    /\ df_sum # <<>>

\* C8: while the server is serving, no step (no callback, with any selected
\* department, in any order) changes df_sum, gdf, Datos_tot or geojson.
C8_DatosInmutables ==
    [][pc = "serving" => UNCHANGED <<df_sum, gdf, Datos_tot, geojson>>]_vars

\* figure callbacks and accordion clicks have run over non-empty data
C8_Testigo ==
    /\ pc = "serving"
    /\ respuesta.callback = "actualizar_barras"
    /\ respuesta.resultado = "figure"
    /\ n_clicks # SinClics
    /\ Datos_tot # <<>>
    /\ geojson # <<>>

\* C9 (as claimed): for every value the dropdown offers, actualizar_mapa
\* returns a figure.
C9_MapaNoLevanta ==
    (/\ respuesta.callback = "actualizar_mapa"
     /\ \E i \in DOMAIN opciones : opciones[i] = respuesta.depto)
        => respuesta.resultado = "figure"

\* C10: the accordion content starts hidden, a call without clicks leaves the
\* style as it is, and after k clicks the content is shown iff k is odd, with
\* the padding and the borders of the layout.
C10_AcordeonAlterna ==
    pc = "serving"
        => acordeon_style =
               [display |-> IF Clics % 2 = 1 THEN "block" ELSE "none",
                padding |-> "15px", border |-> "1px solid #ddd",
                borderTop |-> "none"]

\* two clicks have shown the content and hidden it again
C10_Testigo ==
    /\ pc = "serving"
    /\ n_clicks = <<2>>
    /\ acordeon_style.display = "none"

===========================================================================
